---- MODULE Spec2Model ----
(***************************************************************************)
(* Model of srv/modules/runners/disks.py (DeepSea "DriveGroups"): the     *)
(* matcher family, the filter-name validation of DriveGroup.__init__ and  *)
(* the device selection of DriveGroup._filter_devices.                    *)
(*                                                                         *)
(* Python strings whose characters are inspected (filter values, device   *)
(* attributes, units) are sequences of one-character strings, so that the *)
(* regular expressions, `in`, int() and float() of the source are         *)
(* computed character by character.  Dictionary keys, device paths and    *)
(* exception class names are only compared for equality and are TLA+      *)
(* strings.                                                                *)
(***************************************************************************)
EXTENDS Integers, Sequences, FiniteSets, TLC

VARIABLES
    grains,         \* answer of `grains.get virtual`: host -> value
    raw,            \* the drive_group pillar of the target: role -> filter map
    inventory,      \* the `ceph-volume inventory` of the target: sequence of disks
    pc,             \* where the DriveGroup object / the running call stands
    role,           \* the property being evaluated ("" when none)
    device_filter,  \* argument of the running _filter_devices call
    fi,             \* position of the outer loop (filter entries)
    di,             \* position of the inner loop (disks)
    matcher,        \* the matcher built for the current filter entry
    devices,        \* the accumulating set of _filter_devices
    result,         \* the set returned by the last completed call
    err,            \* the exception raised last
    probe           \* a matcher method applied on its own: argument and outcome

vars == <<grains, raw, inventory, pc, role, device_filter, fi, di, matcher,
          devices, result, err, probe>>

-----------------------------------------------------------------------------
(* Bounds of the model *)

\* largest number of entries of a generated filter map
MaxFilters == 2
\* largest number of disks of an inventory
MaxDisks == 3

-----------------------------------------------------------------------------
(* Characters and strings *)

Digits == {"0", "1", "2", "3", "4", "5", "6", "7", "8", "9"}

Upper == {"A", "B", "C", "D", "E", "F", "G", "H", "I", "J", "K", "L", "M",
          "N", "O", "P", "Q", "R", "S", "T", "U", "V", "W", "X", "Y", "Z"}

Lower == {"a", "b", "c", "d", "e", "f", "g", "h", "i", "j", "k", "l", "m",
          "n", "o", "p", "q", "r", "s", "t", "u", "v", "w", "x", "y", "z"}

Alpha == Upper \cup Lower

\* Python's None where a string is expected (distinct from every string)
None == <<"<None>">>

\* the booleans a compare method returns
PyTrue == <<"<True>">>

PyFalse == <<"<False>">>

\* str(x): None prints as the four characters "None"
Str(x) == IF x = None THEN <<"N", "o", "n", "e">> ELSE x

\* truth value of a string-or-None: None and '' are falsy
Truthy(x) == x # None /\ x # <<>>

\* truth value of a tuple: every non-empty tuple is truthy, whatever it holds
TupleTruthy(t) == Len(t) > 0

\* all(t) of a pair: both members truthy
All(t) == \A i \in 1..Len(t) : Truthy(t[i])

Min(S) == CHOOSE x \in S : \A y \in S : x <= y

\* variant: the whole of b has to be a
Contains_equal(a, b) == a = b

\* `a in b` for strings: a occurs as a contiguous substring of b
Contains(a, b) ==
    \E i \in 1..(Len(b) - Len(a) + 1) : SubSeq(b, i, i + Len(a) - 1) = a

\* first index at or after i that is past the end of s or holds no member of C
RunEnd(s, i, C) ==
    Min({k \in i..(Len(s) + 1) : k = Len(s) + 1 \/ s[k] \notin C})

DigitVal(c) ==
    CASE c = "0" -> 0 [] c = "1" -> 1 [] c = "2" -> 2 [] c = "3" -> 3
      [] c = "4" -> 4 [] c = "5" -> 5 [] c = "6" -> 6 [] c = "7" -> 7
      [] c = "8" -> 8 [] c = "9" -> 9

RECURSIVE IntOf(_)
\* value of a non-empty string of decimal digits
IntOf(s) ==
    IF Len(s) = 0 THEN 0
    ELSE 10 * IntOf(SubSeq(s, 1, Len(s) - 1)) + DigitVal(s[Len(s)])

IsDigits(s) == Len(s) > 0 /\ \A i \in 1..Len(s) : s[i] \in Digits

-----------------------------------------------------------------------------
(* Outcomes: a value returned or an exception raised *)

NoErr == [type |-> "", msg |-> "", name |-> "", text |-> <<>>]

Error(type, msg, name, text) ==
    [type |-> type, msg |-> msg, name |-> name, text |-> text]

Ret(v) == [raised |-> FALSE, val |-> v, err |-> NoErr]

Raise(e) == [raised |-> TRUE, val |-> None, err |-> e]

-----------------------------------------------------------------------------
(* Matcher: the base class *)

\* key of a matcher that has none (fallback_key = None)
NoKey == "<None>"

NoTuple == <<None, None>>

\* variant: the flag is set when every host that answers is a virtual machine
_virtual_all(g) ==
    DOMAIN g # {} /\ \A h \in DOMAIN g : g[h] # "physical"

\* Matcher._virtual: some answering host reports a `virtual` grain that is
\* not "physical"
_virtual(g) ==
    \E h \in DOMAIN g : g[h] # "physical"

\* Matcher.__init__ (fallback_key None), with the fields SizeMatcher adds
\* left at their unset value
Matcher_init(kind, attr, key, g) ==
    [kind |-> kind, attr |-> attr, key |-> key, fallback_key |-> NoKey,
     virtual |-> _virtual(g),
     low |-> NoTuple, high |-> NoTuple, exact |-> NoTuple]

\* the value _reduce_inventory returns for a disk it does not reduce (None)
NoneDisk == [none |-> TRUE]

\* disk.get(key) on a reduced disk: None when the key is absent
DiskGet(disk, key) == IF key \in DOMAIN disk THEN disk[key] ELSE None

\* variant: a missing value is tolerated on every environment
_get_disk_key_tolerant(m, disk) ==
    LET Found(disk_key) == IF Truthy(disk_key) THEN Ret(disk_key) ELSE Ret(None)
        Lookup(first) ==
            IF ~Truthy(first) /\ m.fallback_key # NoKey
            THEN Found(DiskGet(disk, m.fallback_key))
            ELSE Found(first)
    IN  IF disk = NoneDisk
        THEN Raise(Error("AttributeError", "NoneType has no attribute get", "", <<>>))
        ELSE Lookup(DiskGet(disk, m.key))

\* variant: the fallback key, when there is one, is looked up first
_get_disk_key_fallback_first(m, disk) ==
    LET Found(disk_key) ==
            IF Truthy(disk_key) THEN Ret(disk_key)
            ELSE IF m.virtual THEN Ret(None)
            ELSE Raise(Error("Exception", "No disk_key found", m.key,
                             <<m.fallback_key>>))
        Lookup(first) ==
            IF ~Truthy(first) THEN Found(DiskGet(disk, m.key)) ELSE Found(first)
    IN  IF disk = NoneDisk
        THEN Raise(Error("AttributeError", "NoneType has no attribute get", "", <<>>))
        ELSE IF m.fallback_key = NoKey THEN Found(DiskGet(disk, m.key))
        ELSE Lookup(DiskGet(disk, m.fallback_key))

\* Matcher._get_disk_key: the value under key, else under fallback_key; with
\* no value found the method returns nothing (None) on a virtual environment
\* and raises otherwise an Exception whose message names key (err.name) and
\* fallback_key (err.text).  disk = None has no .get (AttributeError).
_get_disk_key(m, disk) ==
    LET Found(disk_key) ==
            IF Truthy(disk_key) THEN Ret(disk_key)
            ELSE IF m.virtual THEN Ret(None)
            ELSE Raise(Error("Exception", "No disk_key found", m.key,
                             <<m.fallback_key>>))
        Lookup(first) ==
            IF ~Truthy(first) /\ m.fallback_key # NoKey
            THEN Found(DiskGet(disk, m.fallback_key))
            ELSE Found(first)
    IN  IF disk = NoneDisk
        THEN Raise(Error("AttributeError", "NoneType has no attribute get", "", <<>>))
        ELSE Lookup(DiskGet(disk, m.key))

-----------------------------------------------------------------------------
(* SubstringMatcher and EqualityMatcher *)

\* SubstringMatcher.__init__
SubstringMatcher_init(attr, key, g) == Matcher_init("Substring", attr, key, g)

\* SubstringMatcher.compare: str(attr) in str(disk_key)
SubstringMatcher_compare(m, disk) ==
    LET Compare(disk_key) ==
            IF disk_key.raised THEN disk_key
            ELSE IF Contains(Str(m.attr), Str(disk_key.val)) THEN Ret(PyTrue)
            ELSE Ret(PyFalse)
    IN  Compare(_get_disk_key(m, disk))

\* EqualityMatcher.__init__
EqualityMatcher_init(attr, key, g) == Matcher_init("Equality", attr, key, g)

\* int(x): TypeError for None, ValueError for a string that is no number
PyInt(x) ==
    IF x = None THEN Raise(Error("TypeError", "int() argument", "", <<>>))
    ELSE IF ~IsDigits(x) THEN Raise(Error("ValueError", "invalid literal for int()", "", x))
    ELSE Ret(IntOf(x))

\* EqualityMatcher.compare: int(disk_key) == int(attr)
EqualityMatcher_compare(m, disk) ==
    LET Equal(a, b) ==
            IF a.raised THEN a
            ELSE IF b.raised THEN b
            ELSE IF a.val = b.val THEN Ret(PyTrue)
            ELSE Ret(PyFalse)
        Compare(disk_key) ==
            IF disk_key.raised THEN disk_key
            ELSE Equal(PyInt(disk_key.val), PyInt(m.attr))
    IN  Compare(_get_disk_key(m, disk))

-----------------------------------------------------------------------------
(* SizeMatcher *)

MB == <<"M", "B">>

GB == <<"G", "B">>

TB == <<"T", "B">>

\* SizeMatcher.supported_suffixes
supported_suffixes == {MB, GB, TB, <<"M">>, <<"G">>, <<"T">>}

\* a normalization that appends the B to every supported suffix
_normalize_suffix_append(suffix) ==
    IF suffix \notin supported_suffixes
    THEN Raise(Error("Exception", "Unit not supported", "", suffix))
    ELSE Ret(suffix \o <<"B">>)

\* SizeMatcher._normalize_suffix
_normalize_suffix(suffix) ==
    IF suffix \notin supported_suffixes
    THEN Raise(Error("Exception", "Unit not supported", "", suffix))
    ELSE IF suffix = <<"G">> THEN Ret(GB)
    ELSE IF suffix = <<"T">> THEN Ret(TB)
    ELSE IF suffix = <<"M">> THEN Ret(MB)
    ELSE Ret(suffix)

\* re.findall(C+, obj)[0]: the first maximal run of characters of C;
\* IndexError when obj holds none
FirstRun(obj, C) ==
    LET From(i) == Ret(SubSeq(obj, i, RunEnd(obj, i, C) - 1))
        Among(starts) ==
            IF starts = {}
            THEN Raise(Error("IndexError", "list index out of range", "", obj))
            ELSE From(Min(starts))
    IN  Among({i \in 1..Len(obj) : obj[i] \in C})

\* SizeMatcher._parse_suffix: re.findall(r"[a-zA-Z]+", obj)[0], normalized
_parse_suffix(obj) ==
    LET Normalize(letters) ==
            IF letters.raised THEN letters ELSE _normalize_suffix(letters.val)
    IN  Normalize(FirstRun(obj, Alpha))

\* SizeMatcher._get_k_v: (re.findall(r"\d+", data)[0], _parse_suffix(data))
_get_k_v(data) ==
    LET Tuple(digits, suffix) ==
            IF digits.raised THEN digits
            ELSE IF suffix.raised THEN suffix
            ELSE Ret(<<digits.val, suffix.val>>)
    IN  Tuple(FirstRun(data, Digits), _parse_suffix(data))

\* \d+[A-Z] at position i of s: the index of the letter, 0 when it does not
\* match there (\d+ is greedy; giving digits back never helps, a digit is no
\* letter)
NumUnitAt(s, i) ==
    LET Letter(e) == IF e > i /\ e <= Len(s) /\ s[e] \in Upper THEN e ELSE 0
    IN  IF i <= Len(s) THEN Letter(RunEnd(s, i, Digits)) ELSE 0

\* re.match(r"\d+[A-Z]:\d+[A-Z]", attr): the end of the match, 0 for no match
LowHighMatch(attr) ==
    LET Colon(a) ==
            IF a > 0 /\ a + 1 <= Len(attr) /\ attr[a + 1] = ":"
            THEN NumUnitAt(attr, a + 2)
            ELSE 0
    IN  Colon(NumUnitAt(attr, 1))

\* re.match(r"\d+[A-Z]:$", attr)
LowMatch(attr) ==
    LET Colon(a) ==
            IF a > 0 /\ a + 1 = Len(attr) /\ attr[a + 1] = ":" THEN a + 1 ELSE 0
    IN  Colon(NumUnitAt(attr, 1))

\* re.match(r"^:\d+[A-Z]", attr)
HighMatch(attr) ==
    IF Len(attr) >= 1 /\ attr[1] = ":" THEN NumUnitAt(attr, 2) ELSE 0

\* re.match(r"^\d+[A-Z]$", attr)
ExactMatch(attr) ==
    LET End(a) == IF a > 0 /\ a = Len(attr) THEN a ELSE 0
    IN  End(NumUnitAt(attr, 1))

\* position of the first ":" of s
ColonAt(s) == Min({i \in 1..Len(s) : s[i] = ":"})

\* _parse_filter, first pattern: low, high = group.split(":"); both are set.
\* o is the matcher so far, or the exception raised so far.
ParseLowHigh(o) ==
    LET Both(low, high) ==
            IF low.raised THEN low
            ELSE IF high.raised THEN high
            ELSE Ret([o.val EXCEPT !.low = low.val, !.high = high.val])
        Split(group, colon) ==
            Both(_get_k_v(SubSeq(group, 1, colon - 1)),
                 _get_k_v(SubSeq(group, colon + 1, Len(group))))
        Group(end) ==
            IF end = 0 THEN o
            ELSE Split(SubSeq(o.val.attr, 1, end), ColonAt(o.val.attr))
    IN  IF o.raised THEN o ELSE Group(LowHighMatch(o.val.attr))

\* _parse_filter, second pattern: low is set
ParseLow(o) ==
    LET Set(kv) == IF kv.raised THEN kv ELSE Ret([o.val EXCEPT !.low = kv.val])
        Group(end) ==
            IF end = 0 THEN o ELSE Set(_get_k_v(SubSeq(o.val.attr, 1, end)))
    IN  IF o.raised THEN o ELSE Group(LowMatch(o.val.attr))

\* _parse_filter, third pattern: high is set
ParseHigh(o) ==
    LET Set(kv) == IF kv.raised THEN kv ELSE Ret([o.val EXCEPT !.high = kv.val])
        Group(end) ==
            IF end = 0 THEN o ELSE Set(_get_k_v(SubSeq(o.val.attr, 1, end)))
    IN  IF o.raised THEN o ELSE Group(HighMatch(o.val.attr))

\* _parse_filter, fourth pattern: exact is set
ParseExact(o) ==
    LET Set(kv) == IF kv.raised THEN kv ELSE Ret([o.val EXCEPT !.exact = kv.val])
        Group(end) ==
            IF end = 0 THEN o ELSE Set(_get_k_v(SubSeq(o.val.attr, 1, end)))
    IN  IF o.raised THEN o ELSE Group(ExactMatch(o.val.attr))

\* _parse_filter, the final test.  It is made on the (value, suffix) tuples
\* themselves, and a tuple of two members is truthy even when both are None.
ParseCheck(o) ==
    IF o.raised THEN o
    ELSE IF /\ ~TupleTruthy(o.val.low)
            /\ ~TupleTruthy(o.val.high)
            /\ ~TupleTruthy(o.val.exact)
    THEN Raise(Error("Exception", "Couldn't parse", "", o.val.attr))
    ELSE o

\* SizeMatcher._parse_filter on a matcher whose low, high and exact are
\* unset: each of the four patterns that matches sets its operands
_parse_filter(m) ==
    ParseCheck(ParseExact(ParseHigh(ParseLow(ParseLowHigh(Ret(m))))))

\* SizeMatcher.__init__: key and fallback key are fixed, whatever key is
\* passed, and the filter is parsed
SizeMatcher_init(attr, key, g) ==
    _parse_filter([Matcher_init("Size", attr, key, g) EXCEPT
                      !.key = "human_readable_size", !.fallback_key = "size"])

\* digits "." digits starts at position i of s
FloatAt(s, i) ==
    LET Dot(e) == e + 1 <= Len(s) /\ s[e] = "." /\ s[e + 1] \in Digits
    IN  s[i] \in Digits /\ Dot(RunEnd(s, i, Digits))

\* re.findall(r"\d+\.\d+", s)[0]: the leftmost digits "." digits
FirstFloat(s) ==
    LET Fraction(i, e) == Ret(SubSeq(s, i, RunEnd(s, e + 1, Digits) - 1))
        From(i) == Fraction(i, RunEnd(s, i, Digits))
        Among(starts) ==
            IF starts = {}
            THEN Raise(Error("IndexError", "list index out of range", "", s))
            ELSE From(Min(starts))
    IN  IF s = None
        THEN Raise(Error("TypeError", "expected string or bytes-like object", "", <<>>))
        ELSE Among({i \in 1..Len(s) : FloatAt(s, i)})

\* float(x) of digits or digits "." digits, in hundredths (the fractions of
\* the modelled sizes have at most two digits)
Float(x) ==
    LET Hundredths(frac) ==
            IF Len(frac) = 0 THEN 0
            ELSE IF Len(frac) = 1 THEN 10 * IntOf(frac)
            ELSE IntOf(SubSeq(frac, 1, 2))
        Parts(e) ==
            100 * IntOf(SubSeq(x, 1, e - 1)) + Hundredths(SubSeq(x, e + 1, Len(x)))
    IN  Parts(RunEnd(x, 1, Digits))

\* The product float(value) * 1e6, 1e9 or 1e12 is an IEEE-754 double: it is
\* the exact product or the double just below or above it.  RoundingOf is the
\* sign of (double - exact product) for a value in hundredths.  A value that
\* is a multiple of 0.25 is a double itself and its product is exact; for the
\* other values the sign is the one CPython computes, listed for the sizes
\* the inputs hold (1.07, 1.10, 2.01).
RoundingOf(value, suffix) ==
    CASE value % 25 = 0 -> 0
      [] value = 107 /\ suffix = MB -> 0
      [] value = 107 /\ suffix = GB -> 1
      [] value = 107 /\ suffix = TB -> 1
      [] value = 110 -> 0
      [] value = 201 -> -1

\* a number of bytes: value * scale units of 10^4 bytes exactly (kept as a
\* product, which may exceed 32-bit integers), and the sign of
\* the rounding error of the double that stands for it
Bytes(value, scale, ulp) == [value |-> value, scale |-> scale, ulp |-> ulp]

\* a.value * a.scale <= b.value * b.scale, computed without the products
ExactLe(a, b) ==
    IF a.scale >= b.scale
    THEN a.value <= b.value \div (a.scale \div b.scale)
    ELSE (a.value + (b.scale \div a.scale) - 1) \div (b.scale \div a.scale) <= b.value

\* <= and == on two such doubles (a rounding error is far below 10^4 bytes)
FloatLe(a, b) ==
    \/ ~ExactLe(b, a)
    \/ ExactLe(a, b) /\ a.ulp <= b.ulp

FloatEq(a, b) == FloatLe(a, b) /\ FloatLe(b, a)

\* a conversion that takes every unit for MB
to_byte_mega(value, suffix) ==
    IF suffix \in {MB, GB, TB} THEN Bytes(value, 1, RoundingOf(value, MB))
    ELSE Bytes(-1, 1, 0)

\* SizeMatcher.to_byte on (float(tpl[0]), tpl[1]): value * 1e6, 1e9 or 1e12
\* bytes.  The model counts in units of 10^4 bytes, so that a value in
\* hundredths is multiplied by 1, 10^3 or 10^6; nothing is returned (None,
\* here -1) for another suffix.
to_byte(value, suffix) ==
    IF suffix = MB THEN Bytes(value, 1, RoundingOf(value, suffix))
    ELSE IF suffix = GB THEN Bytes(value, 1000, RoundingOf(value, suffix))
    ELSE IF suffix = TB THEN Bytes(value, 1000000, RoundingOf(value, suffix))
    ELSE Bytes(-1, 1, 0)

\* self.to_byte(self.high), self.to_byte(self.low), self.to_byte(self.exact)
OperandByte(tpl) == to_byte(Float(tpl[1]), tpl[2])

\* variant: one bound of a range is enough
CompareModes_either(m, disk_size_in_byte) ==
    IF All(m.high) /\ All(m.low)
    THEN (IF \/ FloatLe(disk_size_in_byte, OperandByte(m.high))
             \/ FloatLe(OperandByte(m.low), disk_size_in_byte)
          THEN Ret(PyTrue) ELSE Ret(None))
    ELSE IF All(m.low) /\ ~All(m.high)
    THEN (IF FloatLe(OperandByte(m.low), disk_size_in_byte)
          THEN Ret(PyTrue) ELSE Ret(None))
    ELSE IF All(m.high) /\ ~All(m.low)
    THEN (IF FloatLe(disk_size_in_byte, OperandByte(m.high))
          THEN Ret(PyTrue) ELSE Ret(None))
    ELSE IF All(m.exact)
    THEN (IF FloatEq(disk_size_in_byte, OperandByte(m.exact))
          THEN Ret(PyTrue) ELSE Ret(None))
    ELSE Raise(Error("Exception", "No filters applied", "", <<>>))

\* SizeMatcher.compare, the four modes: True on a match, None (no return)
\* otherwise; no mode at all raises
CompareModes(m, disk_size_in_byte) ==
    IF All(m.high) /\ All(m.low)
    THEN (IF /\ FloatLe(disk_size_in_byte, OperandByte(m.high))
             /\ FloatLe(OperandByte(m.low), disk_size_in_byte)
          THEN Ret(PyTrue) ELSE Ret(None))
    ELSE IF All(m.low) /\ ~All(m.high)
    THEN (IF FloatLe(OperandByte(m.low), disk_size_in_byte)
          THEN Ret(PyTrue) ELSE Ret(None))
    ELSE IF All(m.high) /\ ~All(m.low)
    THEN (IF FloatLe(disk_size_in_byte, OperandByte(m.high))
          THEN Ret(PyTrue) ELSE Ret(None))
    ELSE IF All(m.exact)
    THEN (IF FloatEq(disk_size_in_byte, OperandByte(m.exact))
          THEN Ret(PyTrue) ELSE Ret(None))
    ELSE Raise(Error("Exception", "No filters applied", "", <<>>))

\* variant: a size string that cannot be converted is a non-match
SizeMatcher_compare_lenient(m, disk) ==
    LET Sized(disk_size, disk_suffix) ==
            IF disk_size.raised \/ disk_suffix.raised THEN Ret(PyFalse)
            ELSE CompareModes(m, to_byte(Float(disk_size.val), disk_suffix.val))
        Compare(disk_key) ==
            IF disk_key.raised THEN disk_key
            ELSE IF disk_key.val = None THEN FirstFloat(None)
            ELSE Sized(FirstFloat(disk_key.val), _parse_suffix(disk_key.val))
    IN  Compare(_get_disk_key(m, disk))

\* SizeMatcher.compare: the size of the disk is read off its human readable
\* size, converted to bytes and compared
SizeMatcher_compare(m, disk) ==
    LET Sized(disk_size, disk_suffix) ==
            IF disk_size.raised THEN disk_size
            ELSE IF disk_suffix.raised THEN disk_suffix
            ELSE CompareModes(m, to_byte(Float(disk_size.val), disk_suffix.val))
        Compare(disk_key) ==
            IF disk_key.raised THEN disk_key
            ELSE IF disk_key.val = None THEN FirstFloat(None)
            ELSE Sized(FirstFloat(disk_key.val), _parse_suffix(disk_key.val))
    IN  Compare(_get_disk_key(m, disk))

-----------------------------------------------------------------------------
(* DriveGroup: validation, dispatch and the reduction of a disk *)

\* DriveGroup._supported_filters
_supported_filters == {"size", "vendor", "model", "rotates"}

\* DriveGroup._check_filter: the first key, in the order of the dict, that is
\* not supported raises FilterNotSupported naming it
_check_filter(attr) ==
    LET bad == {i \in 1..Len(attr) : attr[i].name \notin _supported_filters}
    IN  IF bad = {} THEN Ret(None)
        ELSE Raise(Error("FilterNotSupported", "Filter is not supported",
                         attr[Min(bad)].name, <<>>))

\* variant: only the data attrs are validated
_check_filter_support_data_only(r) ==
    _check_filter(r.data_devices)

\* variant: the wal attrs are left to the call that uses them
_check_filter_support_skip_wal(r) ==
    LET d == _check_filter(r.data_devices)
    IN  IF d.raised THEN d ELSE _check_filter(r.db_devices)

\* DriveGroup._check_filter_support: data, wal and db attrs, in this order
_check_filter_support(r) ==
    LET d == _check_filter(r.data_devices)
        w == _check_filter(r.wal_devices)
    IN  IF d.raised THEN d
        ELSE IF w.raised THEN w
        ELSE _check_filter(r.db_devices)

\* the value of `matcher` while no matcher exists
NoMatcher == [Matcher_init("", None, NoKey, <<>>) EXCEPT !.virtual = FALSE]

\* DriveGroup._assign_matchers; g is the answer every Matcher.__init__ gets
\* from `grains.get virtual`
_assign_matchers(filter_name, filter_value, g) ==
    IF filter_name = "size" THEN SizeMatcher_init(filter_value, filter_name, g)
    ELSE IF filter_name = "model"
    THEN Ret(SubstringMatcher_init(filter_value, filter_name, g))
    ELSE IF filter_name = "vendor"
    THEN Ret(SubstringMatcher_init(filter_value, filter_name, g))
    ELSE IF filter_name = "rotates"
    THEN Ret(EqualityMatcher_init(filter_value, filter_name, g))
    ELSE Raise(Error("NoMatcherFound", "No Matcher found", filter_name, filter_value))

\* DriveGroup.__match: matcher.compare(disk), by the class of the matcher
__match(disk, m) ==
    IF m.kind = "Size" THEN SizeMatcher_compare(m, disk)
    ELSE IF m.kind = "Substring" THEN SubstringMatcher_compare(m, disk)
    ELSE EqualityMatcher_compare(m, disk)

\* variant: every disk is reduced, whatever its `available` says
_reduce_inventory_any(disk) ==
    Ret([path |-> disk.path,
         size |-> disk.sys_api.human_readable_size,
         vendor |-> disk.sys_api.vendor,
         bare_size |-> disk.sys_api.size,
         model |-> disk.sys_api.model])

\* DriveGroup._reduce_inventory: a disk whose `available` is False is reduced
\* to path, size (the human readable one), vendor, bare_size and model; for
\* any other disk nothing is returned (None).  disk["available"] raises
\* KeyError when the key is absent.
_reduce_inventory(disk) ==
    IF disk.available = "absent"
    THEN Raise(Error("KeyError", "available", "", <<>>))
    ELSE IF disk.available = "False"
    THEN Ret([path |-> disk.path,
              size |-> disk.sys_api.human_readable_size,
              vendor |-> disk.sys_api.vendor,
              bare_size |-> disk.sys_api.size,
              model |-> disk.sys_api.model])
    ELSE Ret(NoneDisk)

\* variant: the matching device replaces what was collected before
AddDevice_replace(devs, path) == {path}

\* devices.add(disk.get("path"))
AddDevice(devs, path) ==
    devs \cup {path}

\* the body of the inner loop of _filter_devices: the disk is reduced and
\* compared; a disk that matches is added by its path and must have one.
\* The value is the new `devices`.
ScanDisk(disk, m, devs) ==
    LET Matched(c) ==
            IF c.raised THEN c
            ELSE IF c.val # PyTrue THEN Ret(devs)
            ELSE IF disk.path # "" THEN Ret(AddDevice(devs, disk.path))
            ELSE Raise(Error("Exception", "Disk doesn't have a 'path' identifier",
                             "", <<>>))
        Reduced(red) ==
            IF red.raised THEN red ELSE Matched(__match(red.val, m))
    IN  Reduced(_reduce_inventory(disk))

-----------------------------------------------------------------------------
(* Inputs: what the pillar, the inventory and the grains may hold *)

\* a filter map is a sequence of entries (name, value) with distinct names,
\* in the order the dict yields them
Entry(name, val) == [name |-> name, val |-> val]

\* the entries generated filter maps are built from
EntryPool ==
    { Entry("size", <<"1", "0", "G", ":", "2", "9", "G">>),
      Entry("size", <<"1", "0", "G">>),
      Entry("model", <<"m", "o", "d", "e", "l", "C">>),
      Entry("vendor", <<"s", "a", "m", "s", "u", "n", "g">>),
      Entry("rotates", <<"1">>),
      Entry("rotational", <<"1">>),
      Entry("rotational", <<"0">>),
      Entry("all", <<"T", "r", "u", "e">>),
      Entry("all", <<"F", "a", "l", "s", "e">>),
      Entry("limit", <<"1">>),
      Entry("limit", <<"0">>),
      Entry("unknown", <<"f", "o", "o">>) }

DistinctNames(f) ==
    \A i, j \in 1..Len(f) : f[i].name = f[j].name => i = j

\* every filter map of at most n entries of the pool
FilterMaps(n) ==
    {f \in UNION {[1..k -> EntryPool] : k \in 0..n} : DistinctNames(f)}

\* data_devices of the test fixture (make_sample_data), with and without the
\* limit entry
FixtureData(limit) ==
    << Entry("size", <<"1", "0", "G", ":", "2", "9", "G">>),
       Entry("model", <<"f", "o", "o">>),
       Entry("vendor", <<"1", "x">>),
       Entry("limit", limit) >>

FixtureDataNoLimit == SubSeq(FixtureData(<<"0">>), 1, 3)

\* the union of a model filter and a vendor filter, three entries
ModelVendorData ==
    << Entry("model", <<"m", "o", "d", "e", "l">>),
       Entry("vendor", <<"i", "n", "t", "e", "l">>),
       Entry("size", <<"3", "0", "G">>) >>

\* a size range whose low bound lies above its high bound, alone
InvertedData == <<Entry("size", <<"2", "0", "G", ":", "1", "0", "G">>)>>

DataPool ==
    FilterMaps(MaxFilters)
        \cup {FixtureData(<<"0">>), FixtureData(<<"1">>), FixtureDataNoLimit,
              ModelVendorData, InvertedData}

WalPool == {<<Entry("model", <<"f", "a", "s", "t">>)>>, <<Entry("unknown", <<"f", "o", "o">>)>>}

DbPool == {<<Entry("size", <<":", "1", "0", "G">>)>>, <<Entry("unknown", <<"f", "o", "o">>)>>}

\* self.raw.get(role, dict()) for the three roles
Raws ==
    [data_devices : DataPool, wal_devices : WalPool, db_devices : DbPool]

NoRaw == [data_devices |-> <<>>, wal_devices |-> <<>>, db_devices |-> <<>>]

\* the disks inventories are made of: the three disks of the test inventory,
\* a disk without a path, a disk whose attributes are all missing (as on a
\* virtual machine), a disk that is reported available, and two disks whose
\* size string is not `float unit` with a supported unit (512.00 KB, 20 GB)
DiskPool ==
    << [available |-> "False", path |-> "/dev/vda",
     sys_api |-> [human_readable_size |-> <<"1", "0", ".", "0", "0", " ", "G", "B">>,
                 model |-> <<"m", "o", "d", "e", "l", "A">>,
                 vendor |-> <<"s", "a", "m", "s", "u", "n", "g">>,
                 rotational |-> <<"1">>,
                 size |-> <<"1", "0", "4", "7", "4", "8", "3", "6", "4", "8", "0", ".", "0">>]],
       [available |-> "False", path |-> "/dev/vdb",
     sys_api |-> [human_readable_size |-> <<"2", "0", ".", "0", "0", " ", "G", "B">>,
                 model |-> <<"m", "o", "d", "e", "l", "B">>,
                 vendor |-> <<"i", "n", "t", "e", "l">>,
                 rotational |-> <<"0">>,
                 size |-> <<"2", "1", "4", "7", "4", "8", "3", "6", "4", "8", "0", ".", "0">>]],
       [available |-> "False", path |-> "/dev/vdc",
     sys_api |-> [human_readable_size |-> <<"3", "0", ".", "0", "0", " ", "G", "B">>,
                 model |-> <<"m", "o", "d", "e", "l", "C">>,
                 vendor |-> <<"m", "i", "c", "r", "o", "n">>,
                 rotational |-> <<"1">>,
                 size |-> <<"3", "2", "4", "7", "4", "8", "3", "6", "4", "8", "0", ".", "0">>]],
       [available |-> "False", path |-> "",
     sys_api |-> [human_readable_size |-> <<"1", "0", ".", "0", "0", " ", "G", "B">>,
                 model |-> <<"m", "o", "d", "e", "l", "C">>,
                 vendor |-> <<"s", "a", "m", "s", "u", "n", "g">>,
                 rotational |-> <<"1">>,
                 size |-> <<>>]],
       [available |-> "False", path |-> "/dev/vdd",
     sys_api |-> [human_readable_size |-> <<>>,
                 model |-> <<>>,
                 vendor |-> <<>>,
                 rotational |-> <<>>,
                 size |-> <<>>]],
       [available |-> "True", path |-> "/dev/vde",
     sys_api |-> [human_readable_size |-> <<"2", "0", ".", "0", "0", " ", "G", "B">>,
                 model |-> <<"m", "o", "d", "e", "l", "B">>,
                 vendor |-> <<"i", "n", "t", "e", "l">>,
                 rotational |-> <<"0">>,
                 size |-> <<>>]],
       [available |-> "False", path |-> "/dev/vdf",
     sys_api |-> [human_readable_size |-> <<"5", "1", "2", ".", "0", "0", " ", "K", "B">>,
                 model |-> <<"m", "o", "d", "e", "l", "B">>,
                 vendor |-> <<"i", "n", "t", "e", "l">>,
                 rotational |-> <<"0">>,
                 size |-> <<"5", "2", "4", "2", "8", "8", ".", "0">>]],
       [available |-> "False", path |-> "/dev/vdg",
     sys_api |-> [human_readable_size |-> <<"2", "0", " ", "G", "B">>,
                 model |-> <<"m", "o", "d", "e", "l", "C">>,
                 vendor |-> <<"s", "a", "m", "s", "u", "n", "g">>,
                 rotational |-> <<"1">>,
                 size |-> <<"2", "1", "4", "7", "4", "8", "3", "6", "4", "8", "0", ".", "0">>]] >>

\* the i-th smallest member of a set of numbers
Nth(S, i) == CHOOSE x \in S : Cardinality({y \in S : y < x}) = i - 1

\* an inventory lists at most MaxDisks disks of the pool, in the pool's order
Inventories ==
    { [i \in 1..Cardinality(S) |-> DiskPool[Nth(S, i)]] :
        S \in {T \in SUBSET (1..Len(DiskPool)) : Cardinality(T) <= MaxDisks} }

\* answers of grains.get virtual: no host answers, every host is physical,
\* one of two hosts is a virtual machine
GrainsPool ==
    { <<>>,
      [h \in {"minion1", "minion2"} |-> "physical"],
      [h \in {"minion1", "minion2"} |-> IF h = "minion2" THEN "kvm" ELSE "physical"] }

\* the numbers and the units size filters are written with
ProbeDigits == {<<"2", "0">>, <<"1", "0", "0", "0">>, <<"1", "0", "7", "0">>,
                <<"2", "0", "1", "0">>}

\* size filter strings of the four shapes of SizeMatcher._parse_filter:
\* low:high, low:, :high and exact
SizeShapes ==
    LET Operands == {n \o u : n \in ProbeDigits, u \in supported_suffixes}
    IN  {a \o <<":">> \o b : a \in Operands, b \in Operands}
          \cup {a \o <<":">> : a \in Operands}
          \cup {<<":">> \o a : a \in Operands}
          \cup Operands

\* size filter strings of no such shape: the word None, a lower-case unit,
\* no unit, nothing, trailing characters, a unit that is not supported
SizeOthers ==
    { <<"N", "o", "n", "e">>, <<"1", "0", "g">>, <<"1", "0">>, <<>>,
      <<"1", "0", "G", ":", "5", "0", "G", "x", "y", "z">>,
      <<"2", "0", "G", "x">>, <<"1", "0", "P">>, <<"1", "0", "K", "B">>,
      <<"1", "0", "P", "B">> }

\* values of model and vendor filters
SubstringValues ==
    { <<"m", "o", "d", "e", "l">>, <<"s", "a", "m", "s", "u", "n", "g">>,
      <<"o", "n">>, <<>> }

\* the arguments _assign_matchers is applied to on its own
ProbePool ==
    EntryPool \cup {Entry("", None)}
        \cup {Entry("size", v) : v \in SizeShapes \cup SizeOthers}
        \cup {Entry(k, v) : k \in {"model", "vendor"}, v \in SubstringValues}

\* the disks a matcher method is applied to on its own: dicts as
\* _reduce_inventory returns them, with keys missing or empty, and dicts
\* that hold the keys a matcher reads first (human_readable_size, rotates)
ProbeDisks ==
    { [path |-> "/dev/vda", size |-> <<"2", "0", ".", "0", "0", " ", "G", "B">>,
       vendor |-> <<"s", "a", "m", "s", "u", "n", "g">>,
       bare_size |-> <<>>, model |-> <<"m", "o", "d", "e", "l", "A">>],
      [path |-> "/dev/vdb", size |-> <<"2", "1", ".", "0", "0", " ", "G", "B">>,
       vendor |-> <<"S", "a", "m", "s", "u", "n", "g">>,
       bare_size |-> <<>>, model |-> <<"m", "o", "d", "e", "l", "B">>],
      [path |-> "/dev/vdc", size |-> <<"1", ".", "0", "0", " ", "T", "B">>,
       vendor |-> <<"n", "o", "t", "h", "i", "n", "g", "_", "m", "a", "t", "c",
                    "h", "i", "n", "g">>,
       bare_size |-> <<>>, model |-> <<"m", "o", "d", "e", "l", "C">>],
      [path |-> "/dev/vdd", size |-> <<"1", ".", "0", "7", " ", "G", "B">>,
       vendor |-> <<>>, bare_size |-> <<>>, model |-> <<>>],
      [path |-> "/dev/vde", size |-> <<"2", ".", "0", "1", " ", "G", "B">>,
       vendor |-> <<>>, bare_size |-> <<>>, model |-> <<>>],
      [path |-> "/dev/vda", size |-> <<>>, vendor |-> <<>>, bare_size |-> <<>>,
       model |-> <<>>],
      [path |-> "/dev/vdb"],
      [path |-> "/dev/vdb",
       human_readable_size |-> <<"2", "0", ".", "0", "0", " ", "G", "B">>,
       size |-> <<"2", "1", ".", "0", "0", " ", "G", "B">>,
       rotates |-> <<"1">>],
      [path |-> "/dev/vdc", human_readable_size |-> <<>>,
       size |-> <<"2", "1", ".", "0", "0", " ", "G", "B">>,
       rotates |-> <<"0">>] }

\* the suffixes _normalize_suffix is applied to on its own: the supported
\* ones, and P, PB, KB, lower-case units and no letters at all
SuffixPool ==
    supported_suffixes
        \cup { <<"P">>, <<"P", "B">>, <<"K", "B">>, <<"g">>, <<"g", "b">>, <<>> }

\* the numbers to_byte is applied to on its own: the digits of a filter
\* operand and the decimal fractions of a device size
ValuePool ==
    ProbeDigits
        \cup { <<"1", "0">>, <<"1", ".", "0", "0">>, <<"1", ".", "0", "7">>,
               <<"1", ".", "1", "0">>, <<"2", ".", "0", "1">>,
               <<"2", "0", ".", "0", "0">> }

\* the units to_byte is applied to on its own: the normalized ones, one
\* that was not normalized and one that is not supported
UnitPool == {MB, GB, TB, <<"G">>, <<"P", "B">>}

NoEntry == Entry("<none>", None)

\* no method was applied on its own
NoProbe == [disk |-> NoneDisk, arg |-> None, ret |-> Ret(None)]

-----------------------------------------------------------------------------
(* The state machine *)

\* self.data_device_attrs, self.wal_devices_attrs, self.db_devices_attrs
Attrs(r) ==
    CASE r = "data" -> raw.data_devices
      [] r = "wal" -> raw.wal_devices
      [] r = "db" -> raw.db_devices

\* no DriveGroup exists yet; the grains are what the minions answer
Init ==
    /\ grains \in GrainsPool
    /\ raw = NoRaw
    /\ inventory = <<>>
    /\ pc = "new"
    /\ role = ""
    /\ device_filter = <<>>
    /\ fi = 1
    /\ di = 1
    /\ matcher = NoMatcher
    /\ devices = {}
    /\ result = {}
    /\ err = NoErr
    /\ probe = NoProbe

\* DriveGroup.__init__: reads the pillar and the inventory of the target and
\* checks the filter names of the three roles; a FilterNotSupported leaves
\* the constructor, and no object exists
DriveGroup_init ==
    /\ pc = "new"
    /\ \E r \in Raws, inv \in Inventories :
          /\ raw' = r
          /\ inventory' = inv
          /\ \E c \in {_check_filter_support(r)} :
                IF c.raised
                THEN pc' = "failed_init" /\ err' = c.err
                ELSE pc' = "idle" /\ err' = NoErr
    /\ UNCHANGED <<probe, grains, role, device_filter, fi, di, matcher, devices, result>>

\* a DriveGroup exists and no call is running
Callable == pc \in {"idle", "returned", "raised"}

\* a call that starts from the set the call before it returned
Enter_accumulate(r) ==
    /\ role' = r
    /\ device_filter' = Attrs(r)
    /\ devices' = result
    /\ fi' = 1
    /\ di' = 1
    /\ matcher' = NoMatcher
    /\ result' = {}
    /\ err' = NoErr
    /\ pc' = "filter"
    /\ UNCHANGED <<probe, grains, raw, inventory>>

\* the head of _filter_devices, entered from one of the three properties
Enter(r) ==
    /\ role' = r
    /\ device_filter' = Attrs(r)
    /\ devices' = {}
    /\ fi' = 1
    /\ di' = 1
    /\ matcher' = NoMatcher
    /\ result' = {}
    /\ err' = NoErr
    /\ pc' = "filter"
    /\ UNCHANGED <<probe, grains, raw, inventory>>

\* DriveGroup.data_devices
data_devices ==
    /\ Callable
    /\ Enter("data")

\* DriveGroup.wal_devices
wal_devices ==
    /\ Callable
    /\ Enter("wal")

\* DriveGroup.db_devices
db_devices ==
    /\ Callable
    /\ Enter("db")

\* the exception leaves _filter_devices: its locals are gone
Abort(e) ==
    /\ pc' = "raised"
    /\ err' = e
    /\ devices' = {}
    /\ fi' = 1
    /\ di' = 1
    /\ matcher' = NoMatcher
    /\ UNCHANGED <<probe, grains, raw, inventory, role, device_filter, result>>

\* _filter_devices, outer loop: the next entry of device_filter gets its
\* matcher
next_filter ==
    /\ pc = "filter"
    /\ fi <= Len(device_filter)
    /\ \E a \in {_assign_matchers(device_filter[fi].name, device_filter[fi].val, grains)} :
          IF a.raised
          THEN Abort(a.err)
          ELSE /\ matcher' = a.val
               /\ di' = 1
               /\ pc' = "disk"
               /\ UNCHANGED <<probe, grains, raw, inventory, role, device_filter, fi,
                              devices, result, err>>

\* _filter_devices, inner loop: one disk of the inventory is reduced and
\* compared; a matching disk must have a path
next_disk ==
    /\ pc = "disk"
    /\ di <= Len(inventory)
    /\ \E e \in {ScanDisk(inventory[di], matcher, devices)} :
          IF e.raised THEN Abort(e.err)
          ELSE /\ devices' = e.val
               /\ di' = di + 1
               /\ UNCHANGED <<probe, grains, raw, inventory, pc, role, device_filter,
                              fi, matcher, result, err>>

\* _filter_devices, inner loop exhausted: on to the next entry
end_disks ==
    /\ pc = "disk"
    /\ di > Len(inventory)
    /\ fi' = fi + 1
    /\ di' = 1
    /\ matcher' = NoMatcher
    /\ pc' = "filter"
    /\ UNCHANGED <<probe, grains, raw, inventory, role, device_filter, devices, result, err>>

\* _filter_devices: return devices
return_devices ==
    /\ pc = "filter"
    /\ fi > Len(device_filter)
    /\ result' = devices
    /\ devices' = {}
    /\ fi' = 1
    /\ pc' = "returned"
    /\ UNCHANGED <<probe, grains, raw, inventory, role, device_filter, di, matcher, err>>

\* the static method _assign_matchers applied on its own, without a
\* DriveGroup: the entry is kept in device_filter, the outcome in matcher or
\* err
assign_matchers_call ==
    /\ pc = "new"
    /\ \E p \in ProbePool :
          \E a \in {_assign_matchers(p.name, p.val, grains)} :
             /\ device_filter' = <<p>>
             /\ matcher' = IF a.raised THEN NoMatcher ELSE a.val
             /\ err' = IF a.raised THEN a.err ELSE NoErr
    /\ pc' = "probed"
    /\ UNCHANGED <<probe, grains, raw, inventory, role, fi, di, devices, result>>

\* Matcher._get_disk_key of the matcher just built, applied to a disk on its
\* own
get_disk_key_call ==
    /\ pc = "probed"
    /\ matcher # NoMatcher
    /\ \E d \in ProbeDisks :
          \E k \in {_get_disk_key(matcher, d)} :
             probe' = [disk |-> d, arg |-> None, ret |-> k]
    /\ pc' = "extracted"
    /\ UNCHANGED <<grains, raw, inventory, role, device_filter, fi, di, matcher,
                   devices, result, err>>

\* the compare method of the matcher just built, applied to a disk on its
\* own
compare_call ==
    /\ pc = "probed"
    /\ matcher # NoMatcher
    /\ \E d \in ProbeDisks :
          \E c \in {__match(d, matcher)} :
             probe' = [disk |-> d, arg |-> None, ret |-> c]
    /\ pc' = "compared"
    /\ UNCHANGED <<grains, raw, inventory, role, device_filter, fi, di, matcher,
                   devices, result, err>>

\* SizeMatcher._normalize_suffix applied to a suffix on its own
normalize_suffix_call ==
    /\ pc = "new"
    /\ \E s \in SuffixPool :
          \E n \in {_normalize_suffix(s)} :
             probe' = [disk |-> NoneDisk, arg |-> s, ret |-> n]
    /\ pc' = "normalized"
    /\ UNCHANGED <<grains, raw, inventory, role, device_filter, fi, di, matcher,
                   devices, result, err>>

\* the static method to_byte applied to a tuple (value, unit) on its own
to_byte_call ==
    /\ pc = "new"
    /\ \E v \in ValuePool, u \in UnitPool :
          \E b \in {OperandByte(<<v, u>>)} :
             probe' = [disk |-> NoneDisk, arg |-> <<v, u>>, ret |-> Ret(b)]
    /\ pc' = "converted"
    /\ UNCHANGED <<grains, raw, inventory, role, device_filter, fi, di, matcher,
                   devices, result, err>>

Next ==
    \/ DriveGroup_init
    \/ data_devices
    \/ wal_devices
    \/ db_devices
    \/ next_filter
    \/ next_disk
    \/ end_disks
    \/ return_devices
    \/ assign_matchers_call
    \/ get_disk_key_call
    \/ compare_call
    \/ normalize_suffix_call
    \/ to_byte_call

Spec == Init /\ [][Next]_vars

-----------------------------------------------------------------------------
(* Vocabulary of the properties *)

Roles == {"data", "wal", "db"}

\* the keys of a filter map, and its entries as a set (no order)
Names(f) == {f[i].name : i \in 1..Len(f)}

Entries(f) == {f[i] : i \in 1..Len(f)}

Disks == {inventory[j] : j \in 1..Len(inventory)}

\* a DriveGroup was constructed, or its construction failed
Constructed ==
    pc \notin {"new", "probed", "extracted", "compared", "normalized", "converted"}

\* the call for role r is over, or no call can ever be made
Over(r) == pc = "failed_init" \/ (pc \in {"returned", "raised"} /\ role = r)

\* the filter satisfies the device: the entry gets a matcher and its compare
\* returns True on the reduced device
Satisfies(e, disk) ==
    LET a == _assign_matchers(e.name, e.val, grains)
        red == _reduce_inventory(disk)
    IN  /\ ~a.raised
        /\ ~red.raised
        /\ __match(red.val, a.val) = Ret(PyTrue)

\* the paths of the devices that satisfy at least one entry of the set E
Selected(E) == {d.path : d \in {x \in Disks : \E e \in E : Satisfies(e, x)}}

\* the entry is evaluated on the whole inventory without an exception
ScanOk(e) ==
    LET a == _assign_matchers(e.name, e.val, grains)
    IN  /\ ~a.raised
        /\ \A d \in Disks : ~ScanDisk(d, a.val, {}).raised

\* the filter names of the specification, and its reserved key
SpecSupported == {"size", "model", "vendor", "rotational", "all"}

WithoutLimit(f) == SelectSeq(f, LAMBDA e : e.name # "limit")

\* the value of the limit entry of f
LimitOf(f) == IntOf((CHOOSE e \in Entries(f) : e.name = "limit").val)

\* apart from `limit`, every role uses names that the validation and the
\* dispatch of the code know
OnlyLimitIsNew ==
    \A q \in Roles : Names(Attrs(q)) \ {"limit"} \subseteq _supported_filters

\* paths in sorted order: the first n of a set of paths
PathRank(p) ==
    CASE p = "" -> 0
      [] p = "/dev/vda" -> 1
      [] p = "/dev/vdb" -> 2
      [] p = "/dev/vdc" -> 3
      [] p = "/dev/vdd" -> 4
      [] p = "/dev/vde" -> 5
      [] p = "/dev/vdf" -> 6
      [] p = "/dev/vdg" -> 7

FirstN(S, n) ==
    {p \in S : Cardinality({q \in S : PathRank(q) < PathRank(p)}) < n}

\* every disk of the inventory is reduced and has a path
CleanInventory ==
    \A d \in Disks : d.available = "False" /\ d.path # ""

-----------------------------------------------------------------------------
(* C1 *)

\* C1: when _filter_devices returns, it returns exactly the set of the paths
\* of the devices that satisfy at least one entry of the filter map (a
\* union); the set depends on the entries only, not on their order.
C1_UnionOfMatches ==
    pc = "returned" => result = Selected(Entries(device_filter))

\* C1 witness: a returned selection of two entries, each of which contributes
\* a device the other does not match.
C1_Witness ==
    /\ pc = "returned"
    /\ Len(device_filter) = 2
    /\ Selected({device_filter[1]}) \ Selected({device_filter[2]}) # {}
    /\ Selected({device_filter[2]}) \ Selected({device_filter[1]}) # {}

-----------------------------------------------------------------------------
(* C2 *)

\* C2 (as claimed): construction fails with FilterNotSupported if and only if
\* some key other than `limit` of some role lies outside {size, model,
\* vendor, rotational, all}.
C2_ClaimedValidation ==
    Constructed =>
        ((pc = "failed_init" /\ err.type = "FilterNotSupported")
            <=> \E r \in Roles : Names(Attrs(r)) \ (SpecSupported \cup {"limit"}) # {})

-----------------------------------------------------------------------------
(* C3 *)

\* the first key the validation meets that it does not support
FirstOffending ==
    LET r == CHOOSE q \in Roles :
                 /\ ~(Names(Attrs(q)) \subseteq _supported_filters)
                 /\ \A o \in Roles :
                       (o = "data" /\ q # "data") \/ (o = "wal" /\ q = "db")
                           => Names(Attrs(o)) \subseteq _supported_filters
        f == Attrs(r)
    IN  f[Min({i \in 1..Len(f) : f[i].name \notin _supported_filters})].name

\* C3: when the filter map of some role holds a name the validation does not
\* support, the construction has failed with FilterNotSupported naming the
\* first such name, and nothing else has happened: no matcher was built, no
\* device was compared or collected, no call was entered and no selection was
\* returned.
C3_FailFast ==
    (Constructed /\ \E r \in Roles : ~(Names(Attrs(r)) \subseteq _supported_filters))
        => /\ pc = "failed_init"
           /\ err.type = "FilterNotSupported"
           /\ err.name = FirstOffending
           /\ matcher = NoMatcher
           /\ devices = {}
           /\ result = {}
           /\ role = ""

\* C3 witness: the construction failed although the unsupported name comes
\* after a supported filter that devices of the inventory satisfy.
C3_Witness ==
    /\ pc = "failed_init"
    /\ err.type = "FilterNotSupported"
    /\ Len(raw.data_devices) = 2
    /\ raw.data_devices[1].name \in _supported_filters
    /\ err.name = raw.data_devices[2].name
    /\ Selected({raw.data_devices[1]}) # {}

-----------------------------------------------------------------------------
(* C4 *)

\* C4 (as claimed): a role map that carries `limit` next to filters the code
\* knows is accepted: neither the validation nor the dispatch rejects it, and
\* the filters that are matched are the map without its `limit` entry.
C4_ClaimedLimitAccepted ==
    \A r \in Roles :
        (Constructed /\ OnlyLimitIsNew /\ "limit" \in Names(Attrs(r)))
            => /\ pc # "failed_init"
               /\ err.type \notin {"FilterNotSupported", "NoMatcherFound"}
               /\ (pc \in {"filter", "disk", "returned"} /\ role = r)
                     => device_filter = WithoutLimit(Attrs(r))

-----------------------------------------------------------------------------
(* C5 *)

\* C5 (as claimed): with a positive limit L in the map of a role, the
\* selection for that role returns the first L paths, in sorted order, of the
\* devices that satisfy the other filters (all of them when fewer than L
\* match).
C5_ClaimedLimitTruncates ==
    \A r \in Roles :
        ( /\ Over(r)
          /\ OnlyLimitIsNew
          /\ "limit" \in Names(Attrs(r))
          /\ \A e \in Entries(WithoutLimit(Attrs(r))) : ScanOk(e) )
            => (LimitOf(Attrs(r)) >= 1
                  => /\ pc = "returned"
                     /\ result = FirstN(Selected(Entries(WithoutLimit(Attrs(r)))),
                                        LimitOf(Attrs(r))))

-----------------------------------------------------------------------------
(* C6 *)

\* C6 (as claimed): a limit of 0 means no limit: the selection for the role
\* returns every device that satisfies the other filters.
C6_ClaimedZeroIsNoLimit ==
    \A r \in Roles :
        ( /\ Over(r)
          /\ OnlyLimitIsNew
          /\ "limit" \in Names(Attrs(r))
          /\ \A e \in Entries(WithoutLimit(Attrs(r))) : ScanOk(e) )
            => (LimitOf(Attrs(r)) = 0
                  => /\ pc = "returned"
                     /\ result = Selected(Entries(WithoutLimit(Attrs(r)))))

-----------------------------------------------------------------------------
(* C7 *)

\* the matcher the specification assigns to a filter name
Dispatched(name, m) ==
    CASE name = "size" -> m.kind = "Size"
      [] name = "model" -> m.kind = "Substring" /\ m.key = "model"
      [] name = "vendor" -> m.kind = "Substring" /\ m.key = "vendor"
      [] name = "rotational" -> m.kind = "Equality" /\ m.key = "rotational"
      [] name = "all" -> m.kind = "All"
      [] OTHER -> FALSE

\* C7 (as claimed): _assign_matchers gives size a size matcher, model and
\* vendor substring matchers on that attribute, rotational an equality
\* matcher and all the match-all matcher, without raising.
C7_ClaimedDispatch ==
    (pc = "probed" /\ device_filter[1].name \in SpecSupported)
        => /\ err = NoErr
           /\ Dispatched(device_filter[1].name, matcher)

-----------------------------------------------------------------------------
(* C8 *)

\* C8 (as claimed): asking for the matcher of a name outside size, model,
\* vendor, rotational and all (or of no name at all) raises nothing and
\* yields no matcher.
C8_ClaimedNoMatcherNoRaise ==
    (pc = "probed" /\ device_filter[1].name \notin SpecSupported)
        => /\ err = NoErr
           /\ matcher = NoMatcher

-----------------------------------------------------------------------------
(* C9 *)

\* C9 (as claimed): a role whose map holds only the filter `all` selects
\* every device of the inventory.
C9_ClaimedAllMatchesAll ==
    \A r \in Roles :
        ( /\ Over(r)
          /\ CleanInventory
          /\ \A q \in Roles \ {r} : Names(Attrs(q)) \subseteq _supported_filters
          /\ Names(Attrs(r)) = {"all"} )
            => /\ pc = "returned"
               /\ result = {d.path : d \in Disks}

-----------------------------------------------------------------------------
(* C10 *)

\* the rotational flag of the device equals the value of the filter as an
\* integer
SameRotation(e, d) ==
    /\ IsDigits(d.sys_api.rotational)
    /\ IntOf(d.sys_api.rotational) = IntOf(e.val)

\* C10 (as claimed): a role whose map holds only the rotational filter
\* (spelled `rotational`, or `rotates` as the code spells it) with value v
\* selects exactly the devices whose rotational flag equals v as an integer.
C10_ClaimedRotational ==
    \A r \in Roles :
        ( /\ Over(r)
          /\ CleanInventory
          /\ \A d \in Disks : IsDigits(d.sys_api.rotational)
          /\ \A q \in Roles \ {r} : Names(Attrs(q)) \subseteq _supported_filters
          /\ Len(Attrs(r)) = 1
          /\ Attrs(r)[1].name \in {"rotational", "rotates"} )
            => /\ pc = "returned"
               /\ result = {d.path : d \in {x \in Disks : SameRotation(Attrs(r)[1], x)}}

-----------------------------------------------------------------------------
(* Vocabulary of the properties: a matcher method applied on its own *)

\* the filter entry the probed matcher was built from
Probed == device_filter[1]

\* the call applied on its own has a size filter as its entry
SizeProbe(states) == pc \in states /\ Probed.name = "size"

\* position of the colon of a size filter string, 0 when it has none
ColonPos(v) ==
    IF \E i \in 1..Len(v) : v[i] = ":"
    THEN Min({i \in 1..Len(v) : v[i] = ":"})
    ELSE 0

\* the operand `digits unit` as the specification parses it: the digits as
\* they are, the unit normalized to MB, GB or TB
SpecOperand(a) ==
    LET Split(e) ==
            <<SubSeq(a, 1, e - 1),
              IF Len(a) = e THEN SubSeq(a, e, e) \o <<"B">> ELSE SubSeq(a, e, Len(a))>>
    IN  Split(RunEnd(a, 1, Digits))

\* the one shape a size filter string of the four supported shapes has
SpecShape(v) ==
    LET Shape(c) ==
            IF c = 0
            THEN [low |-> NoTuple, high |-> NoTuple, exact |-> SpecOperand(v)]
            ELSE IF c = 1
            THEN [low |-> NoTuple, high |-> SpecOperand(SubSeq(v, 2, Len(v))),
                  exact |-> NoTuple]
            ELSE IF c = Len(v)
            THEN [low |-> SpecOperand(SubSeq(v, 1, c - 1)), high |-> NoTuple,
                  exact |-> NoTuple]
            ELSE [low |-> SpecOperand(SubSeq(v, 1, c - 1)),
                  high |-> SpecOperand(SubSeq(v, c + 1, Len(v))),
                  exact |-> NoTuple]
    IN  Shape(ColonPos(v))

-----------------------------------------------------------------------------
(* C11 *)

\* C11 (as claimed): a size filter string of one of the four shapes, written
\* with any of the units M, MB, G, GB, T, TB, gives a size matcher with
\* exactly that shape set, the digits kept and the units normalized.
C11_ClaimedShapes ==
    (SizeProbe({"probed"}) /\ Probed.val \in SizeShapes)
        => /\ err = NoErr
           /\ matcher.kind = "Size"
           /\ [low |-> matcher.low, high |-> matcher.high, exact |-> matcher.exact]
                 = SpecShape(Probed.val)

-----------------------------------------------------------------------------
(* C12 *)

\* C12 (as claimed): a size filter string of none of the four shapes makes
\* the construction of the size matcher fail, so that no compare ever meets
\* a size matcher without a shape (the error "No filters applied").
C12_ClaimedParseError ==
    /\ (SizeProbe({"probed"}) /\ Probed.val \in SizeOthers)
          => (err.type = "Exception" /\ matcher = NoMatcher)
    /\ pc = "compared" => ~(probe.ret.raised /\ probe.ret.err.msg = "No filters applied")
    /\ err.msg # "No filters applied"

-----------------------------------------------------------------------------
(* Vocabulary of the properties: sizes in bytes, exactly *)

\* the exact number of bytes of `value unit`, the value in hundredths
ExactBytes(value, unit) ==
    Bytes(value, IF unit = MB THEN 1 ELSE IF unit = GB THEN 1000 ELSE 1000000, 0)

\* the exact number of bytes of a parsed operand (digits, unit)
OperandBytes(tpl) == ExactBytes(100 * IntOf(tpl[1]), tpl[2])

\* the exact number of bytes a size string like "1.07 GB" stands for
StringBytes(size) ==
    LET Of(number, unit) == ExactBytes(Float(number.val), unit.val)
    IN  Of(FirstFloat(size), _parse_suffix(size))

\* the size string of the disk of the compare applied on its own
ProbedSize ==
    LET Value(k) == k.val
    IN  Value(_get_disk_key(matcher, probe.disk))

\* the compare applied on its own was that of a size matcher and returned
SizeCompared == SizeProbe({"compared"}) /\ ~probe.ret.raised

\* the number of bytes lies within the bounds the matcher has, inclusively
InBounds(m, d) ==
    /\ m.low # NoTuple => ExactLe(OperandBytes(m.low), d)
    /\ m.high # NoTuple => ExactLe(d, OperandBytes(m.high))

-----------------------------------------------------------------------------
(* C13 *)

\* C13 (as claimed): the compare of a size matcher with at least one bound
\* returns True if and only if the size of the device in bytes lies within
\* the bounds in bytes, each bound inclusive: a device exactly at an
\* endpoint matches.
C13_ClaimedInclusiveBounds ==
    (SizeCompared /\ (matcher.low # NoTuple \/ matcher.high # NoTuple))
        => (probe.ret.val = PyTrue <=> InBounds(matcher, StringBytes(ProbedSize)))

-----------------------------------------------------------------------------
(* C14 *)

\* C14 (as claimed): the compare of an exact size matcher returns True if and
\* only if the size of the device in bytes equals the filter value in bytes,
\* whatever units the two are written in.
C14_ClaimedExactInBytes ==
    (SizeCompared /\ matcher.low = NoTuple /\ matcher.high = NoTuple
       /\ matcher.exact # NoTuple)
        => (probe.ret.val = PyTrue
              <=> FloatEq(OperandBytes(matcher.exact), StringBytes(ProbedSize)))

-----------------------------------------------------------------------------
(* Vocabulary of the properties: the attribute a matcher reads *)

\* the values the disk holds under the key and the fallback key of m
PrimaryValue(m, d) == DiskGet(d, m.key)

FallbackValue(m, d) ==
    IF m.fallback_key = NoKey THEN None ELSE DiskGet(d, m.fallback_key)

\* the disk has no value for the attribute m reads: key and fallback key are
\* both absent or empty
Missing(m, d) == ~Truthy(PrimaryValue(m, d)) /\ ~Truthy(FallbackValue(m, d))

\* a occurs in b: b is some characters, then a, then some characters
Occurs(a, b) ==
    \E i \in 0..Len(b) : \E j \in i..Len(b) : a = [k \in 1..(j - i) |-> b[i + k]]

\* the value the matcher of the call applied on its own reads from its disk
ProbedValue ==
    IF Truthy(PrimaryValue(matcher, probe.disk))
    THEN PrimaryValue(matcher, probe.disk)
    ELSE FallbackValue(matcher, probe.disk)

-----------------------------------------------------------------------------
(* C15 *)

\* C15: the compare of a substring matcher (model, vendor) that reads a value
\* returns True when the string form of the filter value occurs, literally
\* and case-sensitively, in the string form of the attribute of the disk,
\* and False otherwise.
C15_SubstringMatch ==
    (pc = "compared" /\ matcher.kind = "Substring" /\ Truthy(ProbedValue))
        => probe.ret = IF Occurs(Str(matcher.attr), Str(ProbedValue))
                       THEN Ret(PyTrue) ELSE Ret(PyFalse)

\* C15 witness: the filter value matched an attribute it is a proper part of
\* (model matches modelA).
C15_Witness ==
    /\ pc = "compared"
    /\ matcher.kind = "Substring"
    /\ Truthy(ProbedValue)
    /\ probe.ret = Ret(PyTrue)
    /\ Len(matcher.attr) > 0
    /\ matcher.attr # ProbedValue

-----------------------------------------------------------------------------
(* C16 *)

\* C16 (as claimed): on a virtualization-tolerant environment, the compare of
\* every matcher on a disk without a value for its attribute raises nothing
\* and reports no match.
C16_ClaimedSentinelNeverMatches ==
    (pc = "compared" /\ matcher.virtual /\ Missing(matcher, probe.disk))
        => /\ ~probe.ret.raised
           /\ probe.ret.val # PyTrue

-----------------------------------------------------------------------------
(* C17 *)

\* the filter entry e reads an attribute the inventory disk d does not have
MissingFor(e, d) ==
    LET Both(a, red) == ~a.raised /\ ~red.raised /\ red.val # NoneDisk
                           /\ Missing(a.val, red.val)
    IN  Both(_assign_matchers(e.name, e.val, grains), _reduce_inventory(d))

\* C17: on an environment that is not virtualization-tolerant, the
\* extraction of an attribute the disk has no value for (key and fallback
\* key) raises an error that names both keys; in a selection the error leaves
\* the whole call: no set is returned when some filter reads an attribute
\* that some disk of the inventory does not have.
C17_StrictMissingRaises ==
    /\ (pc = "extracted" /\ ~matcher.virtual /\ Missing(matcher, probe.disk))
          => probe.ret = Raise(Error("Exception", "No disk_key found", matcher.key,
                                     <<matcher.fallback_key>>))
    /\ (pc = "returned" /\ ~_virtual(grains))
          => \A e \in Entries(device_filter) : \A d \in Disks : ~MissingFor(e, d)
    /\ (pc = "raised" /\ err.msg = "No disk_key found")
          => /\ ~_virtual(grains)
             /\ result = {}
             /\ \E e \in Entries(device_filter) : \E d \in Disks :
                   /\ MissingFor(e, d)
                   /\ err.name = _assign_matchers(e.name, e.val, grains).val.key
                   /\ err.text = <<_assign_matchers(e.name, e.val, grains).val.fallback_key>>

\* C17 witness: a selection ended with the missing-attribute error on a
\* later disk after the first disk of the inventory had matched the same
\* filter.
C17_Witness ==
    /\ pc = "raised"
    /\ err.msg = "No disk_key found"
    /\ Len(inventory) >= 2
    /\ \E e \in Entries(device_filter) :
          /\ Satisfies(e, inventory[1])
          /\ err.name = _assign_matchers(e.name, e.val, grains).val.key
          /\ \A x \in Entries(device_filter) \ {e} : ScanOk(x)

-----------------------------------------------------------------------------
(* C18 *)

\* C18 (as claimed): when some disk of the inventory has no path, the
\* selection aborts with the missing-path error whether or not that disk
\* matches: no set is returned.
C18_ClaimedPathMandatory ==
    (pc \in {"returned", "raised"} /\ Len(device_filter) > 0
       /\ \E d \in Disks : d.path = "")
        => pc = "raised"

-----------------------------------------------------------------------------
(* C19 *)

\* C19: the extraction returns the value under the key when it is there and
\* not empty; only when it is not, and a fallback key is set, the value under
\* the fallback key; the value found is returned as it is, on tolerant and
\* on strict environments alike.
C19_KeyThenFallback ==
    pc = "extracted"
        => /\ Truthy(PrimaryValue(matcher, probe.disk))
                 => probe.ret = Ret(PrimaryValue(matcher, probe.disk))
           /\ (~Truthy(PrimaryValue(matcher, probe.disk))
                 /\ Truthy(FallbackValue(matcher, probe.disk)))
                 => probe.ret = Ret(FallbackValue(matcher, probe.disk))
           /\ (~probe.ret.raised /\ Truthy(probe.ret.val))
                 => probe.ret.val = ProbedValue

\* C19 witness: the key is there but empty and the value comes from the
\* fallback key.
C19_Witness ==
    /\ pc = "extracted"
    /\ matcher.key \in DOMAIN probe.disk
    /\ ~Truthy(PrimaryValue(matcher, probe.disk))
    /\ Truthy(probe.ret.val)
    /\ probe.ret = Ret(FallbackValue(matcher, probe.disk))

-----------------------------------------------------------------------------
(* C20 *)

\* C20 (as claimed): on a virtualization-tolerant environment the extraction
\* of an attribute the disk has no value for returns the empty string.
C20_ClaimedEmptyString ==
    (pc = "extracted" /\ matcher.virtual /\ Missing(matcher, probe.disk))
        => probe.ret = Ret(<<>>)

-----------------------------------------------------------------------------
(* C21 *)

\* C21: _normalize_suffix maps M to MB, G to GB and T to TB and returns MB,
\* GB and TB unchanged; for every x of {M, MB, G, GB, T, TB} the result is
\* one of MB, GB, TB and normalizing it again returns it unchanged
\* (normalize(normalize(x)) = normalize(x)).
C21_NormalizeIdempotent ==
    (/\ pc = "normalized"
     /\ probe.arg \in {<<"M">>, <<"M", "B">>, <<"G">>, <<"G", "B">>, <<"T">>,
                       <<"T", "B">>})
        => /\ ~probe.ret.raised
           /\ probe.ret.val \in {<<"M", "B">>, <<"G", "B">>, <<"T", "B">>}
           /\ probe.ret.val[1] = probe.arg[1]
           /\ _normalize_suffix(probe.ret.val) = probe.ret

\* C21 witness: the single letter G was normalized to GB.
C21_Witness ==
    /\ pc = "normalized"
    /\ probe.arg = <<"G">>
    /\ probe.ret = Ret(<<"G", "B">>)

-----------------------------------------------------------------------------
(* C22 *)

\* the unit of a size string `digits capitals`, <<>> for any other string
UnitOf(v) ==
    LET Rest(e) ==
            IF e > 1 /\ \A i \in e..Len(v) : v[i] \in Upper
            THEN SubSeq(v, e, Len(v))
            ELSE <<>>
    IN  Rest(RunEnd(v, 1, Digits))

\* C22 (as claimed): a unit suffix outside {M, MB, G, GB, T, TB} fails with
\* the unit-not-supported error that names the rejected unit, and it fails
\* during parsing: a size filter `digits unit` with such a unit (10P, 10KB)
\* fails when the size matcher is constructed, with that error, and no
\* matcher exists.
C22_ClaimedUnitRejected ==
    /\ (pc = "normalized" /\ probe.arg \notin supported_suffixes)
          => /\ probe.ret.raised
             /\ probe.ret.err.msg = "Unit not supported"
             /\ probe.ret.err.text = probe.arg
    /\ ( /\ SizeProbe({"probed"})
         /\ UnitOf(Probed.val) # <<>>
         /\ UnitOf(Probed.val) \notin supported_suffixes )
          => /\ matcher = NoMatcher
             /\ err.msg = "Unit not supported"
             /\ err.text = UnitOf(Probed.val)

-----------------------------------------------------------------------------
(* C23 *)

\* the power of ten of a unit: 1 MB = 10^6, 1 GB = 10^9, 1 TB = 10^12 bytes
PowerOfTen(unit) ==
    CASE unit = <<"M", "B">> -> 6
      [] unit = <<"G", "B">> -> 9
      [] unit = <<"T", "B">> -> 12

\* the tuple to_byte was applied to on its own has a normalized unit
Converted == pc = "converted" /\ probe.arg[2] \in {MB, GB, TB}

\* C23: to_byte converts with decimal powers of ten: (value, MB) is value *
\* 10^6 bytes, (value, GB) value * 10^9 and (value, TB) value * 10^12 (a
\* value in hundredths times 10^(k-6) units of 10^4 bytes, as the double
\* next to it); for a fixed unit it is strictly increasing in the value.
C23_DecimalPowers ==
    Converted
        => /\ probe.ret.val.value = Float(probe.arg[1])
           /\ probe.ret.val.scale = 10 ^ (PowerOfTen(probe.arg[2]) - 6)
           /\ probe.ret.val.ulp \in {-1, 0, 1}
           /\ \A v \in ValuePool :
                 \E b \in {OperandByte(<<v, probe.arg[2]>>)} :
                    Float(probe.arg[1]) < Float(v)
                        => FloatLe(probe.ret.val, b) /\ ~FloatLe(b, probe.ret.val)

\* C23 witness: 2.01 GB was converted; it is 201 * 10^3 units of 10^4 bytes,
\* rounded down to the double below, and it lies strictly between the
\* conversions of 1.10 GB and of 20 GB.
C23_Witness ==
    /\ pc = "converted"
    /\ probe.arg = <<<<"2", ".", "0", "1">>, <<"G", "B">>>>
    /\ probe.ret.val = Bytes(201, 1000, -1)
    /\ ~FloatLe(probe.ret.val, to_byte(110, GB))
    /\ ~FloatLe(to_byte(2000, GB), probe.ret.val)

-----------------------------------------------------------------------------
(* C24 *)

\* C24: a compare, on its own or inside a scan, leaves the operands of the
\* matcher (low, high, exact, key, fallback key) as they were; a role
\* selection leaves the inventory and the filter map of every role as they
\* were.  So whatever calls came before, for data, wal or db, in any order
\* and any number, a call returns or raises as the filter map of its role,
\* the inventory and the grains alone say, and a returned set is the set
\* they determine.
C24_FrameAndRepeatable ==
    /\ [][ /\ (pc = "probed" /\ pc' = "compared") => matcher' = matcher
           /\ (pc = "disk" /\ pc' = "disk") => matcher' = matcher
           /\ Constructed => /\ raw' = raw
                             /\ inventory' = inventory
                             /\ grains' = grains ]_vars
    /\ [](pc \in {"returned", "raised"}
            => (pc = "returned" <=> \A e \in Entries(Attrs(role)) : ScanOk(e)))
    /\ [](pc = "returned" => result = Selected(Entries(Attrs(role))))

\* C24 witness: the db role returned a non-empty set that is not the set of
\* the data role, and the wal role selects nothing: a call that kept
\* anything of another call would return a different set.
C24_Witness ==
    /\ pc = "returned"
    /\ role = "db"
    /\ result # {}
    /\ \A e \in Entries(raw.data_devices) : ScanOk(e)
    /\ Selected(Entries(raw.data_devices)) \notin {{}, result}
    /\ Selected(Entries(raw.wal_devices)) = {}

-----------------------------------------------------------------------------
(* C25 *)

\* the filter map of some role holds a name the validation does not support
SomeRoleUnsupported ==
    \E r \in Roles : ~(Names(Attrs(r)) \subseteq _supported_filters)

\* C25: the filter names are validated once, by the constructor, for the
\* three roles together.  An unsupported name in any one role makes the
\* construction fail with FilterNotSupported; after that nothing can be
\* called, so no role is ever scanned and no set is ever returned, not even
\* for a role whose own names are all supported.  FilterNotSupported is
\* raised by the constructor only, never by a later call.
C25_ValidatedOnceForAll ==
    /\ []((Constructed /\ SomeRoleUnsupported)
            => /\ pc = "failed_init"
               /\ err.type = "FilterNotSupported"
               /\ ~ENABLED (data_devices \/ wal_devices \/ db_devices))
    /\ [][ /\ pc # "failed_init"
           /\ (pc' = "failed_init" \/ err'.type = "FilterNotSupported")
                 => pc = "new" ]_vars

\* C25 witness: the construction failed for a name of the wal role alone;
\* the names of the data and db roles are supported and each of the two
\* roles has a filter that devices of the inventory satisfy.
C25_Witness ==
    /\ pc = "failed_init"
    /\ ~(Names(raw.wal_devices) \subseteq _supported_filters)
    /\ Names(raw.data_devices) \subseteq _supported_filters
    /\ Names(raw.db_devices) \subseteq _supported_filters
    /\ Selected(Entries(raw.data_devices)) # {}
    /\ Selected(Entries(raw.db_devices)) # {}

-----------------------------------------------------------------------------
(* C26 *)

\* the inventory holds a disk whose `available` is not False
SomeNotReduced == \E d \in Disks : d.available # "False"

\* the first entry of the role gets a matcher, and the disks listed before
\* the first disk that is not reduced are scanned with it without exception
NothingElseFirst(r) ==
    LET a == _assign_matchers(Attrs(r)[1].name, Attrs(r)[1].val, grains)
        n == Min({j \in 1..Len(inventory) : inventory[j].available # "False"})
    IN  /\ ~a.raised
        /\ \A j \in 1..(n - 1) : ~ScanDisk(inventory[j], a.val, {}).raised

-----------------------------------------------------------------------------
(* C27 *)

\* the size string is `digits "." digits " " unit` with a unit of M, MB, G,
\* GB, T, TB
WellFormedSize(s) ==
    LET Unit(e) ==
            /\ e < Len(s)
            /\ s[e] = " "
            /\ SubSeq(s, e + 1, Len(s)) \in supported_suffixes
        Fraction(e) ==
            /\ e > 1
            /\ e < Len(s)
            /\ s[e] = "."
            /\ s[e + 1] \in Digits
            /\ Unit(RunEnd(s, e + 1, Digits))
    IN  Len(s) > 0 /\ Fraction(RunEnd(s, 1, Digits))

\* a device that is reduced and reports a size string that cannot be
\* converted (a missing size is the case of the extraction, not this one)
Unconvertible(d) ==
    /\ d.available = "False"
    /\ d.sys_api.human_readable_size # <<>>
    /\ ~WellFormedSize(d.sys_api.human_readable_size)

\* the role has the size filter as its only entry and every other device of
\* the inventory is scanned with it without exception
OnlyUnconvertibleFails(r) ==
    /\ Len(Attrs(r)) = 1
    /\ \E a \in {_assign_matchers("size", Attrs(r)[1].val, grains)} :
          /\ ~a.raised
          /\ \A d \in Disks :
                Unconvertible(d) \/ ~ScanDisk(d, a.val, {}).raised

\* C27: with a size filter in the filter map of a role, one device whose
\* size string cannot be converted (512.00 KB: the unit is not supported; 20
\* GB: no decimal fraction) makes the call end with an exception; no set is
\* returned, whatever the other devices are.  When nothing else can fail,
\* the exception is the unit error naming the unit, or the IndexError of the
\* missing fraction.
C27_UnconvertibleAborts ==
    \A r \in Roles :
        ( /\ Over(r)
          /\ pc # "failed_init"
          /\ \E e \in Entries(Attrs(r)) : e.name = "size"
          /\ \E d \in Disks : Unconvertible(d) )
            => /\ pc = "raised"
               /\ OnlyUnconvertibleFails(r)
                     => \/ err.msg = "Unit not supported" /\ err.text = <<"K", "B">>
                        \/ err.type = "IndexError"

\* C27 witness: a call with a size filter was aborted by the unit error of
\* the device of 512.00 KB although another device satisfies the filter.
C27_Witness ==
    /\ pc = "raised"
    /\ Len(device_filter) = 1
    /\ device_filter[1].name = "size"
    /\ err.msg = "Unit not supported"
    /\ err.text = <<"K", "B">>
    /\ Selected(Entries(device_filter)) # {}

-----------------------------------------------------------------------------
(* C28 *)

\* the two operands of a size filter string with its colon at position c
RangeOperands(v, c) == <<SubSeq(v, 1, c - 1), SubSeq(v, c + 1, Len(v))>>

\* the string is `digits unit ":" digits unit` with units of M, MB, G, GB,
\* T, TB, and the low bound lies above the high bound, in bytes
InvertedRange(v) ==
    LET Above(o) ==
            /\ UnitOf(o[1]) \in supported_suffixes
            /\ UnitOf(o[2]) \in supported_suffixes
            /\ ~ExactLe(OperandBytes(SpecOperand(o[1])),
                        OperandBytes(SpecOperand(o[2])))
        At(c) == c > 1 /\ c < Len(v) /\ Above(RangeOperands(v, c))
    IN  At(ColonPos(v))

\* both units of the range are single letters, as the patterns of
\* _parse_filter read them
OneLetterUnits(v) ==
    LET Single(o) == Len(UnitOf(o[1])) = 1 /\ Len(UnitOf(o[2])) = 1
    IN  Single(RangeOperands(v, ColonPos(v)))

\* the role has one filter, a size range with its bounds inverted, and its
\* call is over
InvertedOver(r) ==
    /\ Over(r)
    /\ pc # "failed_init"
    /\ Len(Attrs(r)) = 1
    /\ Attrs(r)[1].name = "size"
    /\ InvertedRange(Attrs(r)[1].val)

\* every device of the inventory is reduced and reports a size that can be
\* converted
AllConvertible ==
    \A d \in Disks :
        d.available = "False" /\ WellFormedSize(d.sys_api.human_readable_size)

-----------------------------------------------------------------------------
(* C29 *)

\* the hosts that answered `grains.get virtual`
Hosts == DOMAIN grains

\* at least one host reports a `virtual` grain other than "physical"
SomeHostVirtual == \E h \in Hosts : grains[h] # "physical"

\* C29: the flag `virtual` of every matcher is true exactly when at least
\* one targeted host reports a `virtual` grain other than "physical"; it is
\* false when every host is physical and when no host answers.  With one
\* virtual host among the targeted ones, the extraction of an attribute a
\* disk has no value for is tolerant (it does not raise), whatever the disk;
\* without one it raises.
C29_VirtualFlag ==
    /\ matcher # NoMatcher => (matcher.virtual <=> SomeHostVirtual)
    /\ (matcher # NoMatcher /\ \A h \in Hosts : grains[h] = "physical")
          => ~matcher.virtual
    /\ (pc = "extracted" /\ Missing(matcher, probe.disk))
          => (probe.ret.raised <=> ~SomeHostVirtual)

\* C29 witness: one of two hosts is a virtual machine, the other is
\* physical, and the extraction of a missing attribute did not raise.
C29_Witness ==
    /\ pc = "extracted"
    /\ Hosts = {"minion1", "minion2"}
    /\ grains["minion1"] = "physical"
    /\ grains["minion2"] # "physical"
    /\ matcher.virtual
    /\ Missing(matcher, probe.disk)
    /\ ~probe.ret.raised

====
